---- MODULE Spec2Model ----
(***************************************************************************)
(* Model of the Clinical Aggregator API (src/app.py): the /extract         *)
(* request handler, the file validator, the MIME lookup and the call to    *)
(* the external generative model.                                          *)
(*                                                                         *)
(* Python strings are sequences of one-character strings.  Fixed literal   *)
(* fragments of messages are kept as one element of the sequence.  The     *)
(* uploaded bytes are represented by their length, the only thing the code *)
(* looks at.  The external model is an environment that returns a text,    *)
(* returns no text, or raises.  Message literals are written without       *)
(* their accents.                                                          *)
(***************************************************************************)
EXTENDS Integers, Sequences, FiniteSets, TLC

(* ------------------------------ bounds --------------------------------- *)

\* longest stem put in front of an extension piece when building filenames
MaxStemLen == 2
\* sizes max_size-SizeSlack .. max_size+SizeSlack are tried around the limit
SizeSlack == 1
\* most whitespace characters the external model puts before its text
MaxLead == 1
\* requests served by one process in a behaviour
MaxRequests == 2

(* --------------------------- string helpers ---------------------------- *)

UpperChars ==
  <<"A","B","C","D","E","F","G","H","I","J","K","L","M",
    "N","O","P","Q","R","S","T","U","V","W","X","Y","Z">>

LowerChars ==
  <<"a","b","c","d","e","f","g","h","i","j","k","l","m",
    "n","o","p","q","r","s","t","u","v","w","x","y","z">>

\* str.lower() of one character
LowerChar(c) ==
  IF \E i \in 1..26 : UpperChars[i] = c
  THEN LowerChars[CHOOSE i \in 1..26 : UpperChars[i] = c]
  ELSE c

\* str.upper() of one character
UpperChar(c) ==
  IF \E i \in 1..26 : LowerChars[i] = c
  THEN UpperChars[CHOOSE i \in 1..26 : LowerChars[i] = c]
  ELSE c

\* str.lower()
Lower(s) == [i \in 1..Len(s) |-> LowerChar(s[i])]

\* str.upper()
Upper(s) == [i \in 1..Len(s) |-> UpperChar(s[i])]

\* c in s
Contains(s, c) == \E i \in 1..Len(s) : s[i] = c

\* s.split(c): the list of the pieces of s between the occurrences of c
RECURSIVE Split(_, _)
Split(s, c) ==
  IF ~Contains(s, c) THEN <<s>>
  ELSE LET i == CHOOSE k \in 1..Len(s) :
                  s[k] = c /\ \A j \in 1..(k-1) : s[j] # c
       IN  <<SubSeq(s, 1, i-1)>> \o Split(SubSeq(s, i+1, Len(s)), c)

\* s.split(c, 1): at most one split, at the first occurrence of c
Split1(s, c) ==
  IF ~Contains(s, c) THEN <<s>>
  ELSE LET i == CHOOSE k \in 1..Len(s) :
                  s[k] = c /\ \A j \in 1..(k-1) : s[j] # c
       IN  <<SubSeq(s, 1, i-1), SubSeq(s, i+1, Len(s))>>

\* list[-1]
Last(l) == l[Len(l)]

\* the characters str.strip() removes
IsSpace(c) == c \in {" ", "\t", "\n", "\r"}

RECURSIVE LStrip(_)
LStrip(s) ==
  IF s # <<>> /\ IsSpace(s[1]) THEN LStrip(Tail(s)) ELSE s

RECURSIVE RStrip(_)
RStrip(s) ==
  IF s # <<>> /\ IsSpace(s[Len(s)]) THEN RStrip(SubSeq(s, 1, Len(s)-1)) ELSE s

\* str.strip()
Strip(s) == RStrip(LStrip(s))

\* s.startswith(p)
StartsWith(s, p) == Len(s) >= Len(p) /\ SubSeq(s, 1, Len(p)) = p

DigitChars == <<"0","1","2","3","4","5","6","7","8","9">>

\* str(n) for n >= 0
RECURSIVE Digits(_)
Digits(n) ==
  IF n < 10 THEN <<DigitChars[n+1]>>
  ELSE Digits(n \div 10) \o <<DigitChars[(n % 10) + 1]>>

(* ----------------------------- validation ------------------------------ *)

\* {'pdf', 'png', ...} as character sequences
allowed ==
  { <<"p","d","f">>, <<"p","n","g">>, <<"j","p","g">>, <<"j","p","e","g">>,
    <<"g","i","f">>, <<"w","e","b","p">>, <<"t","i","f","f">>,
    <<"t","i","f">>, <<"b","m","p">> }

max_size == 20 * 1024 * 1024

\* filename.lower().split('.')[-1] if '.' in filename else ''
ext_of(filename) ==
  IF Contains(filename, ".") THEN Last(Split(Lower(filename), ".")) ELSE <<>>

\* FormatMB with the MB taken as 1000 * 1000 bytes
FormatMB_DecimalMB(file_size) ==
  LET unit   == 1000 * 1000
      q      == (file_size * 10) \div unit
      r      == (file_size * 10) % unit
      tenths == IF 2 * r > unit THEN q + 1
                ELSE IF 2 * r = unit THEN q + (q % 2)
                ELSE q
  IN  Digits(tenths \div 10) \o <<".">> \o Digits(tenths % 10)

\* f"{file_size / 1024 / 1024:.1f}": the quotient is exact in binary
\* floating point, and the formatting rounds it to the nearest tenth, ties
\* to the even tenth
FormatMB(file_size) ==
  LET unit   == 1024 * 1024
      q      == (file_size * 10) \div unit
      r      == (file_size * 10) % unit
      tenths == IF 2 * r > unit THEN q + 1
                ELSE IF 2 * r = unit THEN q + (q % 2)
                ELSE q
  IN  Digits(tenths \div 10) \o <<".">> \o Digits(tenths % 10)

format_reason(ext) ==
  <<"Formato .">> \o ext \o <<" nao suportado. Use: PDF, PNG, JPG, etc.">>

size_reason(file_size) ==
  <<"Arquivo muito grande (">> \o FormatMB(file_size) \o <<"MB). Limite: 20MB">>

\* validate_file with the size test written file_size >= max_size
validate_file_StrictLimit(filename, file_size) ==
  LET ext == ext_of(filename)
  IN  IF ext \notin allowed
      THEN [ok |-> FALSE, reason |-> format_reason(ext)]
      ELSE IF file_size >= max_size
      THEN [ok |-> FALSE, reason |-> size_reason(file_size)]
      ELSE [ok |-> TRUE, reason |-> <<>>]

\* validate_file(filename, file_size) -> (ok, reason)
validate_file(filename, file_size) ==
  LET ext == ext_of(filename)
  IN  IF ext \notin allowed
      THEN [ok |-> FALSE, reason |-> format_reason(ext)]
      ELSE IF file_size > max_size
      THEN [ok |-> FALSE, reason |-> size_reason(file_size)]
      ELSE [ok |-> TRUE, reason |-> <<>>]

\* get_mime_type(filename)
get_mime_type(filename) ==
  LET ext == ext_of(filename)
  IN  CASE ext = <<"p","d","f">>     -> "application/pdf"
        [] ext = <<"p","n","g">>     -> "image/png"
        [] ext = <<"j","p","g">>     -> "image/jpeg"
        [] ext = <<"j","p","e","g">> -> "image/jpeg"
        [] ext = <<"g","i","f">>     -> "image/gif"
        [] ext = <<"w","e","b","p">> -> "image/webp"
        [] ext = <<"t","i","f","f">> -> "image/tiff"
        [] ext = <<"t","i","f">>     -> "image/tiff"
        [] ext = <<"b","m","p">>     -> "image/bmp"
        [] OTHER                     -> "application/octet-stream"

(* ------------------------------ inputs --------------------------------- *)

\* os.environ.get("GEMINI_API_KEY"): absent, set to the empty string, or set
None == "None"
Credentials == {None, "", "secret"}

Methods == {"POST", "OPTIONS"}

RECURSIVE SeqsUpTo(_, _)
\* all sequences over S of length at most n
SeqsUpTo(S, n) ==
  IF n = 0 THEN {<<>>}
  ELSE LET shorter == SeqsUpTo(S, n - 1)
       IN  shorter \cup {Append(s, c) : s \in shorter, c \in S}

\* what a filename starts with: letters and dots
Stems == SeqsUpTo({"a", "."}, MaxStemLen)

\* what a filename ends with: the allow-listed extensions, other cases of
\* them, near misses, other extensions and nothing
ExtPieces ==
  allowed \cup
  { <<"P","D","F">>, <<"J","p","G">>, <<"T","I","F","F">>,
    <<"p","d">>, <<"p","d","f","x">>, <<"p","d","f"," ">>,
    <<"e","x","e">>, <<"p","d","f",".","e","x","e">>,
    <<"e","x","e",".","P","n","g">>, <<"t","x","t">>, <<>> }

Filenames == {s \o e : s \in Stems, e \in ExtPieces}

\* 25 MiB, 25 000 000 bytes, and two sizes whose MB value is a tie between
\* two tenths (20.25 and 20.75)
Sizes ==
  {0, 1, 25 * 1024 * 1024, 25000000, 21233664, 21757952}
    \cup {max_size + d : d \in (0 - SizeSlack)..SizeSlack}

\* a FileStorage: its filename and the bytes of its stream (by their length)
FileStorages == [filename : Filenames, stream_len : Sizes]

\* request.files: no field, a field under another name, or the field 'file'
RequestFiles ==
  { [n \in {} |-> 0] }
    \cup { ("other" :> f) : f \in {[filename |-> <<"a",".","p","d","f">>, stream_len |-> 1]} }
    \cup { ("file" :> f) : f \in FileStorages }

NOT_CLINICAL == <<"N","O","T","_","C","L","I","N","I","C","A","L">>

Leads == SeqsUpTo({" ", "\n"}, MaxLead)

Heads ==
  { NOT_CLINICAL,
    <<"n","o","t","_","c","l","i","n","i","c","a","l">>,
    <<"N","o","t","_","C","l","i","n","i","c","a","l">>,
    <<"N","O","T","_","C","L","I","N","I","C","A">>,
    <<"N","O","T"," ","C","L","I","N","I","C","A","L">>,
    <<"P","a","c",":"," ","H","A","S">>,
    <<"X"," ","N","O","T","_","C","L","I","N","I","C","A","L">>,
    <<>> }

Tails ==
  { <<>>,
    <<":">>,
    <<":"," ","a","d","m"," ","d","o","c"," ">>,
    <<" ","x",":","y",":"," ","z","\n">>,
    <<"S"," ">> }

\* response.text of the external model, when it is a string
ModelTexts == {l \o h \o t : l \in Leads, h \in Heads, t \in Tails}

\* what client.models.generate_content does: raise, or return a response
\* whose text is a string or None
ModelOutcomes ==
  { [kind |-> "raise"], [kind |-> "none"] }
    \cup { [kind |-> "text", text |-> t] : t \in ModelTexts }

(* ------------------------------- state --------------------------------- *)

VARIABLES
  GEMINI_API_KEY,   \* the credential, read once when the module is loaded
  request,          \* the request being handled: [method, files]
  pc,               \* the handler's position
  locals,           \* the local variables of extract() assigned so far
  response,         \* what extract() returned: [status, is_json, body]
  steps,            \* history: the pipeline steps this request went through
  gemini_calls,     \* history: calls of generate_content in this request
  responses_sent,   \* history: responses returned for this request
  raised,           \* history: the exceptions raised inside the try block
  served            \* history: requests completed by this process

vars == <<GEMINI_API_KEY, request, pc, locals, response, steps,
          gemini_calls, responses_sent, raised, served>>

NoLocals == [n \in {} |-> 0]
NoRequest == [method |-> "-", files |-> [n \in {} |-> 0]]
NoResponse == [status |-> 0, is_json |-> FALSE, body |-> <<>>]

\* jsonify({...}), status
Json(status, body) == [status |-> status, is_json |-> TRUE, body |-> body]

\* jsonify({"success": False, "error": code, "message": message}), status
ErrorResponse(status, code, message) ==
  Json(status, [success |-> FALSE, error |-> code, message |-> message])

CONFIG_MESSAGE == <<"API nao configurada corretamente. Contate o administrador.">>
NO_FIELD_MESSAGE == <<"Nenhum arquivo enviado. Envie um arquivo no campo 'file'.">>
NO_NAME_MESSAGE == <<"Arquivo sem nome.">>
PROCESSING_MESSAGE == <<"Erro ao processar documento. Tente novamente.">>
NOT_CLINICAL_PREFIX == <<"Documento nao contem informacoes clinicas: ">>
DEFAULT_REASON == <<"Documento nao clinico">>

\* return <response>: the handler ends
Return(r) ==
  /\ response' = r
  /\ responses_sent' = responses_sent + 1
  /\ pc' = "done"

\* the except clause with the exception put in the message
Except_Detail(e) ==
  /\ raised' = Append(raised, e)
  /\ Return(ErrorResponse(500, "PROCESSING_ERROR",
                          <<"Erro ao processar documento: ", e>>))

\* exception e is raised inside the try block: the except clause logs it and
\* returns the generic answer
Except(e) ==
  /\ raised' = Append(raised, e)
  /\ Return(ErrorResponse(500, "PROCESSING_ERROR", PROCESSING_MESSAGE))

Init ==
  /\ GEMINI_API_KEY \in Credentials
  /\ request = NoRequest
  /\ pc = "idle"
  /\ locals = NoLocals
  /\ response = NoResponse
  /\ steps = <<>>
  /\ gemini_calls = 0
  /\ responses_sent = 0
  /\ raised = <<>>
  /\ served = 0

(* ------------------------------ actions -------------------------------- *)

\* Flask calls extract() for a request to /extract, with a fresh frame
Request ==
  /\ pc = "idle"
  /\ served < MaxRequests
  /\ \E m \in Methods, f \in RequestFiles :
       request' = [method |-> m, files |-> f]
  /\ pc' = "method"
  /\ UNCHANGED <<GEMINI_API_KEY, locals, response, steps, gemini_calls,
                 responses_sent, raised, served>>

\* extract() has returned: the response goes out and the frame is dropped
Finish ==
  /\ pc = "done"
  /\ pc' = "idle"
  /\ request' = NoRequest
  /\ locals' = NoLocals
  /\ response' = NoResponse
  /\ steps' = <<>>
  /\ gemini_calls' = 0
  /\ responses_sent' = 0
  /\ raised' = <<>>
  /\ served' = served + 1
  /\ UNCHANGED GEMINI_API_KEY

\* CheckMethod without the pre-flight return
CheckMethod_NoPreflight ==
  /\ pc = "method"
  /\ steps' = Append(steps, "method")
  /\ pc' = "credential"
  /\ UNCHANGED <<GEMINI_API_KEY, request, locals, response, gemini_calls,
                 responses_sent, raised, served>>

\* if request.method == 'OPTIONS': return '', 204
CheckMethod ==
  /\ pc = "method"
  /\ steps' = Append(steps, "method")
  /\ IF request.method = "OPTIONS"
     THEN Return([status |-> 204, is_json |-> FALSE, body |-> <<>>])
     ELSE /\ pc' = "credential"
          /\ UNCHANGED <<response, responses_sent>>
  /\ UNCHANGED <<GEMINI_API_KEY, request, locals, gemini_calls, raised, served>>

\* CheckCredential with the test for the field 'file' made before it
CheckCredential_AfterFileField ==
  /\ pc = "credential"
  /\ steps' = Append(steps, "credential")
  /\ IF "file" \notin DOMAIN request.files
     THEN Return(ErrorResponse(400, "NO_FILE", NO_FIELD_MESSAGE))
     ELSE IF GEMINI_API_KEY \in {None, ""}
     THEN Return(ErrorResponse(500, "CONFIG_ERROR", CONFIG_MESSAGE))
     ELSE /\ pc' = "file_field"
          /\ UNCHANGED <<response, responses_sent>>
  /\ UNCHANGED <<GEMINI_API_KEY, request, locals, gemini_calls, raised, served>>

\* if not GEMINI_API_KEY: return CONFIG_ERROR, 500
CheckCredential ==
  /\ pc = "credential"
  /\ steps' = Append(steps, "credential")
  /\ IF GEMINI_API_KEY \in {None, ""}
     THEN Return(ErrorResponse(500, "CONFIG_ERROR", CONFIG_MESSAGE))
     ELSE /\ pc' = "file_field"
          /\ UNCHANGED <<response, responses_sent>>
  /\ UNCHANGED <<GEMINI_API_KEY, request, locals, gemini_calls, raised, served>>

\* if 'file' not in request.files: return NO_FILE, 400
\* file = request.files['file']
CheckFileField ==
  /\ pc = "file_field"
  /\ steps' = Append(steps, "file_field")
  /\ IF "file" \notin DOMAIN request.files
     THEN /\ Return(ErrorResponse(400, "NO_FILE", NO_FIELD_MESSAGE))
          /\ UNCHANGED locals
     ELSE /\ locals' = locals @@ ("file" :> request.files["file"])
          /\ pc' = "filename"
          /\ UNCHANGED <<response, responses_sent>>
  /\ UNCHANGED <<GEMINI_API_KEY, request, gemini_calls, raised, served>>

\* CheckFilename without the test for the empty filename
CheckFilename_Skipped ==
  /\ pc = "filename"
  /\ steps' = Append(steps, "filename")
  /\ pc' = "read"
  /\ UNCHANGED <<GEMINI_API_KEY, request, locals, response, gemini_calls,
                 responses_sent, raised, served>>

\* if file.filename == '': return NO_FILE, 400
CheckFilename ==
  /\ pc = "filename"
  /\ steps' = Append(steps, "filename")
  /\ IF locals["file"].filename = <<>>
     THEN Return(ErrorResponse(400, "NO_FILE", NO_NAME_MESSAGE))
     ELSE /\ pc' = "read"
          /\ UNCHANGED <<response, responses_sent>>
  /\ UNCHANGED <<GEMINI_API_KEY, request, locals, gemini_calls, raised, served>>

\* file_bytes = file.read(); filename = file.filename
\* reading the stream may raise, which the except clause answers
ReadFile ==
  /\ pc = "read"
  /\ steps' = Append(steps, "read")
  /\ \E fails \in BOOLEAN :
       IF fails
       THEN /\ Except("read")
            /\ UNCHANGED locals
       ELSE /\ locals' = locals
                  @@ ("file_bytes" :> [len |-> locals["file"].stream_len])
                  @@ ("filename" :> locals["file"].filename)
            /\ pc' = "validate"
            /\ UNCHANGED <<response, responses_sent, raised>>
  /\ UNCHANGED <<GEMINI_API_KEY, request, gemini_calls, served>>

\* Validate without the return on an invalid file
Validate_NoReturn ==
  /\ pc = "validate"
  /\ steps' = Append(steps, "validate")
  /\ LET v == validate_file(locals["filename"], locals["file_bytes"].len)
     IN  locals' = locals @@ ("is_valid" :> v.ok) @@ ("error_msg" :> v.reason)
  /\ pc' = "mime"
  /\ UNCHANGED <<GEMINI_API_KEY, request, response, gemini_calls,
                 responses_sent, raised, served>>

\* is_valid, error_msg = validate_file(filename, len(file_bytes))
\* if not is_valid: return INVALID_FILE, 400
Validate ==
  /\ pc = "validate"
  /\ steps' = Append(steps, "validate")
  /\ LET v == validate_file(locals["filename"], locals["file_bytes"].len)
     IN  /\ locals' = locals @@ ("is_valid" :> v.ok) @@ ("error_msg" :> v.reason)
         /\ IF ~v.ok
            THEN Return(ErrorResponse(400, "INVALID_FILE", v.reason))
            ELSE /\ pc' = "mime"
                 /\ UNCHANGED <<response, responses_sent>>
  /\ UNCHANGED <<GEMINI_API_KEY, request, gemini_calls, raised, served>>

\* mime_type = get_mime_type(filename)
ResolveMime ==
  /\ pc = "mime"
  /\ steps' = Append(steps, "mime")
  /\ locals' = locals @@ ("mime_type" :> get_mime_type(locals["filename"]))
  /\ pc' = "extract"
  /\ UNCHANGED <<GEMINI_API_KEY, request, response, gemini_calls,
                 responses_sent, raised, served>>

\* process_with_gemini returning response.text without strip()
process_with_gemini_NoStrip(o) ==
  /\ gemini_calls' = gemini_calls + 1
  /\ IF o.kind = "raise"
     THEN /\ Except("generate_content")
          /\ UNCHANGED locals
     ELSE IF o.kind = "none"
     THEN /\ Except("strip")
          /\ locals' = locals @@ ("response" :> o)
     ELSE /\ locals' = locals
                @@ ("response" :> o)
                @@ ("result_text" :> o.text)
          /\ pc' = "classify"
          /\ UNCHANGED <<response, responses_sent, raised>>

\* process_with_gemini(file_bytes, mime_type) with the outcome o of the one
\* call of generate_content: the call raises, or response.text.strip()
\* raises because the text is None, or the stripped text is returned
process_with_gemini(o) ==
  /\ gemini_calls' = gemini_calls + 1
  /\ IF o.kind = "raise"
     THEN /\ Except("generate_content")
          /\ UNCHANGED locals
     ELSE IF o.kind = "none"
     THEN /\ Except("strip")
          /\ locals' = locals @@ ("response" :> o)
     ELSE /\ locals' = locals
                @@ ("response" :> o)
                @@ ("result_text" :> Strip(o.text))
          /\ pc' = "classify"
          /\ UNCHANGED <<response, responses_sent, raised>>

\* Extract calling the external model a second time when the first call raised
Extract_Retry ==
  /\ pc = "extract"
  /\ steps' = Append(steps, "extract")
  /\ \E first \in ModelOutcomes :
       IF first.kind = "raise"
       THEN \E o \in ModelOutcomes :
              /\ gemini_calls' = gemini_calls + 2
              /\ IF o.kind = "raise"
                 THEN /\ Except("generate_content")
                      /\ UNCHANGED locals
                 ELSE IF o.kind = "none"
                 THEN /\ Except("strip")
                      /\ locals' = locals @@ ("response" :> o)
                 ELSE /\ locals' = locals
                            @@ ("response" :> o)
                            @@ ("result_text" :> Strip(o.text))
                      /\ pc' = "classify"
                      /\ UNCHANGED <<response, responses_sent, raised>>
       ELSE process_with_gemini(first)
  /\ UNCHANGED <<GEMINI_API_KEY, request, served>>

\* result_text = process_with_gemini(file_bytes, mime_type)
Extract ==
  /\ pc = "extract"
  /\ steps' = Append(steps, "extract")
  /\ \E o \in ModelOutcomes : process_with_gemini(o)
  /\ UNCHANGED <<GEMINI_API_KEY, request, served>>

\* reason_of taking the text after the last colon
reason_of_LastColon(result_text) ==
  IF Contains(result_text, ":")
  THEN Strip(Last(Split(result_text, ":")))
  ELSE DEFAULT_REASON

\* the reason of a NOT_CLINICAL reply
reason_of(result_text) ==
  IF Contains(result_text, ":")
  THEN Strip(Last(Split1(result_text, ":")))
  ELSE DEFAULT_REASON

\* the response built from result_text
classify(result_text, filename, file_bytes, mime_type) ==
  IF StartsWith(Upper(result_text), NOT_CLINICAL)
  THEN ErrorResponse(200, "NOT_CLINICAL",
                     NOT_CLINICAL_PREFIX \o reason_of(result_text))
  ELSE Json(200, [success |-> TRUE,
                  message |-> result_text,
                  metadata |-> [filename |-> filename,
                                size_bytes |-> file_bytes.len,
                                mime_type |-> mime_type]])

\* if result_text.upper().startswith("NOT_CLINICAL"): ... else success
Classify ==
  /\ pc = "classify"
  /\ steps' = Append(steps, "classify")
  /\ Return(classify(locals["result_text"], locals["filename"],
                     locals["file_bytes"], locals["mime_type"]))
  /\ UNCHANGED <<GEMINI_API_KEY, request, locals, gemini_calls, raised, served>>

Next ==
  \/ Request
  \/ Finish
  \/ CheckMethod
  \/ CheckCredential
  \/ CheckFileField
  \/ CheckFilename
  \/ ReadFile
  \/ Validate
  \/ ResolveMime
  \/ Extract
  \/ Classify

Spec == Init /\ [][Next]_vars

(* ----------------- the pure validator, applied to inputs ---------------- *)

\* a call validate_file(filename, file_size) with arguments of the input sets
InitValidate ==
  /\ GEMINI_API_KEY = None
  /\ request = NoRequest
  /\ pc = "call"
  /\ \E fn \in Filenames, n \in Sizes :
       locals = ("filename" :> fn) @@ ("file_size" :> n)
  /\ response = NoResponse
  /\ steps = <<>>
  /\ gemini_calls = 0
  /\ responses_sent = 0
  /\ raised = <<>>
  /\ served = 0

\* is_valid, error_msg = validate_file(filename, file_size)
CallValidate ==
  /\ pc = "call"
  /\ LET v == validate_file(locals["filename"], locals["file_size"])
     IN  locals' = locals @@ ("is_valid" :> v.ok) @@ ("error_msg" :> v.reason)
  /\ pc' = "returned"
  /\ UNCHANGED <<GEMINI_API_KEY, request, response, steps, gemini_calls,
                 responses_sent, raised, served>>

NextValidate == CallValidate

SpecValidate == InitValidate /\ [][NextValidate]_vars

(* ------------------- notions the properties are stated in --------------- *)

\* the request is a POST answered by extract()
Answered == pc = "done" /\ request.method = "POST"

\* the credential is set (to a non-empty value)
CredentialSet == GEMINI_API_KEY \notin {None, ""}

\* the request carries the field 'file'
HasFileField == "file" \in DOMAIN request.files

\* the uploaded file of the request
Upload == request.files["file"]

\* the response is JSON with the given status, success=false and error code
IsError(status, code) ==
  /\ response.is_json
  /\ response.status = status
  /\ response.body.success = FALSE
  /\ "error" \in DOMAIN response.body
  /\ response.body.error = code

\* the position of the last '.' of s, 0 when there is none
LastDot(s) ==
  IF \E i \in 1..Len(s) : s[i] = "."
  THEN CHOOSE i \in 1..Len(s) : s[i] = "." /\ \A j \in (i+1)..Len(s) : s[j] # "."
  ELSE 0

\* the extension: the lower-cased substring after the last '.', empty when
\* the filename has no '.'
Extension(s) ==
  IF LastDot(s) = 0 THEN <<>>
  ELSE [i \in 1..(Len(s) - LastDot(s)) |-> LowerChar(s[LastDot(s) + i])]

AllowList ==
  { <<"p","d","f">>, <<"p","n","g">>, <<"j","p","g">>, <<"j","p","e","g">>,
    <<"g","i","f">>, <<"w","e","b","p">>, <<"t","i","f","f">>,
    <<"t","i","f">>, <<"b","m","p">> }

\* the file passes validation as the specification words it
Acceptable(fn, n) == Extension(fn) \in AllowList /\ n <= 20 * 1024 * 1024

\* sub occurs in s
InfixOf(sub, s) ==
  \E i \in 0..(Len(s) - Len(sub)) : SubSeq(s, i + 1, i + Len(sub)) = sub

\* the number a sequence of decimal digits writes
RECURSIVE NumberOf(_)
NumberOf(d) ==
  IF d = <<>> THEN 0
  ELSE 10 * NumberOf(SubSeq(d, 1, Len(d) - 1))
         + ((CHOOSE k \in 1..10 : DigitChars[k] = d[Len(d)]) - 1)

AllDigits(d) ==
  d # <<>> /\ \A i \in 1..Len(d) : \E k \in 1..10 : DigitChars[k] = d[i]

\* msg is the size reason for a file of n bytes: between its two literals it
\* writes, with one decimal, the tenth of a MB nearest to n bytes
ReportsSizeInMB(msg, n) ==
  /\ Len(msg) >= 5
  /\ msg[1] = "Arquivo muito grande ("
  /\ msg[Len(msg)] = "MB). Limite: 20MB"
  /\ msg[Len(msg) - 2] = "."
  /\ LET whole  == SubSeq(msg, 2, Len(msg) - 3)
         frac   == <<msg[Len(msg) - 1]>>
     IN  /\ AllDigits(whole) /\ AllDigits(frac)
         /\ LET tenths == 10 * NumberOf(whole) + NumberOf(frac)
                diff   == tenths * 1024 * 1024 - 10 * n
            IN  2 * diff <= 1024 * 1024 /\ 2 * diff >= 0 - 1024 * 1024

\* msg is the format reason naming extension e
NamesExtension(msg, e) ==
  /\ Len(msg) = Len(e) + 2
  /\ msg[1] = "Formato ."
  /\ SubSeq(msg, 2, Len(msg) - 1) = e

(* ------------------------------ properties ------------------------------ *)

\* C1: when the credential is unset, every POST to /extract is answered with
\* HTTP 500, success=false, error=CONFIG_ERROR, whatever the request carries;
\* the file is never read and the external model never called.
C1_ConfigErrorFirst ==
  (request.method = "POST" /\ GEMINI_API_KEY = None) =>
    /\ ~Contains(steps, "file_field")
    /\ ~Contains(steps, "read")
    /\ "file_bytes" \notin DOMAIN locals
    /\ gemini_calls = 0
    /\ pc = "done" => IsError(500, "CONFIG_ERROR")

\* a POST with a valid file is answered while the credential is unset
C1_Witness ==
  /\ Answered
  /\ GEMINI_API_KEY = None
  /\ HasFileField
  /\ Acceptable(Upload.filename, Upload.stream_len)
  /\ IsError(500, "CONFIG_ERROR")

\* C2: an OPTIONS request to /extract is answered with HTTP 204 and an empty
\* body, whatever the credential and the request are, and goes through no
\* other step of the pipeline.
C2_OptionsShortCircuit ==
  request.method = "OPTIONS" =>
    /\ \A i \in 1..Len(steps) : steps[i] = "method"
    /\ locals = NoLocals
    /\ gemini_calls = 0
    /\ pc = "done" =>
         /\ response.status = 204
         /\ ~response.is_json
         /\ response.body = <<>>

\* an OPTIONS request carrying a file is answered while the credential is unset
C2_Witness ==
  /\ pc = "done"
  /\ request.method = "OPTIONS"
  /\ GEMINI_API_KEY = None
  /\ HasFileField
  /\ response.status = 204

\* C3 as stated: a POST without the field 'file', or whose file has an empty
\* filename, is answered with HTTP 400, error=NO_FILE, and the model is not
\* called.
C3_NoFileAlways ==
  (Answered /\ (~HasFileField \/ Upload.filename = <<>>)) =>
    IsError(400, "NO_FILE") /\ gemini_calls = 0

\* C3 amended: the same, when the credential is set.
C3_NoFileWhenConfigured ==
  (Answered /\ CredentialSet /\ (~HasFileField \/ Upload.filename = <<>>)) =>
    IsError(400, "NO_FILE") /\ gemini_calls = 0

\* a configured POST whose file has an empty filename is answered NO_FILE
C3_Witness ==
  /\ Answered
  /\ CredentialSet
  /\ HasFileField
  /\ Upload.filename = <<>>
  /\ IsError(400, "NO_FILE")

\* C4: validate returns ok=true exactly when the extension is in the allow
\* list and the size is at most 20 MiB, for every filename and size.
C4_ValidateExactly ==
  pc = "returned" =>
    (locals["is_valid"] <=> Acceptable(locals["filename"], locals["file_size"]))

\* a file of exactly 20 MiB with an upper-case allow-listed extension is
\* accepted
C4_Witness ==
  /\ pc = "returned"
  /\ locals["file_size"] = 20 * 1024 * 1024
  /\ locals["filename"] = <<"a", ".", "P", "D", "F">>
  /\ locals["is_valid"]

\* C5: with the credential set and a file with a non-empty filename read,
\* whenever validate rejects the file the answer is HTTP 400, error=
\* INVALID_FILE, with the validator's reason as message, and the model is
\* never called; for a pdf above 20 MiB the message is the size reason.
C5_InvalidFile ==
  (/\ Answered /\ CredentialSet /\ HasFileField
   /\ "is_valid" \in DOMAIN locals
   /\ ~locals["is_valid"]) =>
    /\ ~Acceptable(Upload.filename, Upload.stream_len)
    /\ IsError(400, "INVALID_FILE")
    /\ response.body.message = locals["error_msg"]
    /\ gemini_calls = 0
    /\ (Extension(Upload.filename) = <<"p","d","f">>
          /\ Upload.stream_len > 20 * 1024 * 1024)
         => ReportsSizeInMB(response.body.message, Upload.stream_len)

\* a pdf of 25 MiB is answered INVALID_FILE with the message "... (25.0MB) ..."
C5_Witness ==
  /\ Answered
  /\ HasFileField
  /\ Upload.filename = <<"a", ".", "p", "d", "f">>
  /\ Upload.stream_len = 25 * 1024 * 1024
  /\ IsError(400, "INVALID_FILE")
  /\ InfixOf(<<"2", "5", ".", "0">>, response.body.message)

\* C6 as stated: for every filename and every size above 20 MiB, validate
\* fails with the size reason.
C6_SizeReasonAlways ==
  (pc = "returned" /\ locals["file_size"] > 20 * 1024 * 1024) =>
    /\ ~locals["is_valid"]
    /\ ReportsSizeInMB(locals["error_msg"], locals["file_size"])

\* C6 amended: for every size above 20 MiB validate fails; the reason is the
\* size reason when the extension is in the allow list, and the format reason
\* naming the extension when it is not.
C6_SizeReasonWhenExtensionAllowed ==
  (pc = "returned" /\ locals["file_size"] > 20 * 1024 * 1024) =>
    /\ ~locals["is_valid"]
    /\ IF Extension(locals["filename"]) \in AllowList
       THEN ReportsSizeInMB(locals["error_msg"], locals["file_size"])
       ELSE NamesExtension(locals["error_msg"], Extension(locals["filename"]))

\* a jpeg of 21233664 bytes (20.25 MiB) is rejected with "... (20.2MB) ..."
C6_Witness ==
  /\ pc = "returned"
  /\ locals["file_size"] = 21233664
  /\ Extension(locals["filename"]) = <<"j","p","e","g">>
  /\ ~locals["is_valid"]
  /\ InfixOf(<<"2", "0", ".", "2">>, locals["error_msg"])

\* the external model returned a text for this request
ModelReturnedText ==
  "response" \in DOMAIN locals /\ locals["response"].kind = "text"

\* the text the external model returned
ModelText == locals["response"].text

\* s starts with p, letter case ignored
StartsWithIgnoringCase(s, p) ==
  /\ Len(s) >= Len(p)
  /\ \A i \in 1..Len(p) : LowerChar(s[i]) = LowerChar(p[i])

\* s without its leading and trailing whitespace
Trimmed(s) ==
  IF \A i \in 1..Len(s) : IsSpace(s[i]) THEN <<>>
  ELSE LET first == CHOOSE i \in 1..Len(s) :
                      ~IsSpace(s[i]) /\ \A j \in 1..(i-1) : IsSpace(s[j])
           last  == CHOOSE i \in 1..Len(s) :
                      ~IsSpace(s[i]) /\ \A j \in (i+1)..Len(s) : IsSpace(s[j])
       IN  SubSeq(s, first, last)

\* the position of the first ':' of s, 0 when there is none
FirstColon(s) ==
  IF \E i \in 1..Len(s) : s[i] = ":"
  THEN CHOOSE i \in 1..Len(s) : s[i] = ":" /\ \A j \in 1..(i-1) : s[j] # ":"
  ELSE 0

\* the trimmed text after the first colon, or the default phrase
ReasonText(s) ==
  IF FirstColon(s) = 0 THEN <<"Documento nao clinico">>
  ELSE Trimmed(SubSeq(s, FirstColon(s) + 1, Len(s)))

\* the MIME table of the specification
MimeTable(e) ==
  IF e = <<"p","d","f">> THEN "application/pdf"
  ELSE IF e = <<"p","n","g">> THEN "image/png"
  ELSE IF e \in {<<"j","p","g">>, <<"j","p","e","g">>} THEN "image/jpeg"
  ELSE IF e = <<"g","i","f">> THEN "image/gif"
  ELSE IF e = <<"w","e","b","p">> THEN "image/webp"
  ELSE IF e \in {<<"t","i","f","f">>, <<"t","i","f">>} THEN "image/tiff"
  ELSE IF e = <<"b","m","p">> THEN "image/bmp"
  ELSE "application/octet-stream"

\* the response is the success response for the uploaded file with message m
IsSuccess(m) ==
  /\ response.is_json
  /\ response.status = 200
  /\ response.body.success = TRUE
  /\ "error" \notin DOMAIN response.body
  /\ response.body.message = m
  /\ "metadata" \in DOMAIN response.body
  /\ response.body.metadata.filename = Upload.filename
  /\ response.body.metadata.size_bytes = Upload.stream_len
  /\ response.body.metadata.mime_type = MimeTable(Extension(Upload.filename))

\* C7: when the external model returns a text that starts, case ignored,
\* with NOT_CLINICAL, the answer is HTTP 200, success=false, error=
\* NOT_CLINICAL, without metadata, and the message contains the trimmed text
\* after the first colon of the model text, or the default phrase when the
\* text has no colon.
C7_NotClinical ==
  (/\ Answered
   /\ ModelReturnedText
   /\ StartsWithIgnoringCase(ModelText, NOT_CLINICAL)) =>
    /\ IsError(200, "NOT_CLINICAL")
    /\ "metadata" \notin DOMAIN response.body
    /\ InfixOf(ReasonText(ModelText), response.body.message)

\* the model answered "not_clinical x:y: z", and the message ends with "y: z"
C7_Witness ==
  /\ Answered
  /\ ModelReturnedText
  /\ ModelText = <<"n","o","t","_","c","l","i","n","i","c","a","l",
                   " ","x",":","y",":"," ","z","\n">>
  /\ IsError(200, "NOT_CLINICAL")
  /\ InfixOf(<<"y",":"," ","z">>, response.body.message)

\* C8 as stated: with the credential set and a validated file, when the
\* external model returns a text that does not start, case ignored, with
\* NOT_CLINICAL, the answer is the success response with the trimmed model
\* text as message.
C8_SuccessOnRawText ==
  (/\ Answered /\ CredentialSet
   /\ ModelReturnedText
   /\ ~StartsWithIgnoringCase(ModelText, NOT_CLINICAL)) =>
    IsSuccess(Trimmed(ModelText))

\* C8 amended: the same, when the trimmed model text does not start, case
\* ignored, with NOT_CLINICAL.
C8_SuccessOnTrimmedText ==
  (/\ Answered /\ CredentialSet
   /\ ModelReturnedText
   /\ ~StartsWithIgnoringCase(Trimmed(ModelText), NOT_CLINICAL)) =>
    IsSuccess(Trimmed(ModelText))

\* the model answered " Pac: HAS: adm doc " for a.JpG of 20 MiB, and the
\* answer is the success response with image/jpeg
C8_Witness ==
  /\ Answered
  /\ ModelReturnedText
  /\ ModelText = <<" ","P","a","c",":"," ","H","A","S",
                   ":"," ","a","d","m"," ","d","o","c"," ">>
  /\ Upload.filename = <<"a",".","J","p","G">>
  /\ Upload.stream_len = 20 * 1024 * 1024
  /\ response.status = 200
  /\ response.body.success = TRUE
  /\ Len(response.body.message) = 17
  /\ response.body.metadata.mime_type = "image/jpeg"

\* C9: a failure raised while reading the file, calling the external model
\* or taking its text is answered by the handler with HTTP 500, error=
\* PROCESSING_ERROR and the one fixed message, whatever the failure is, and
\* the answer carries neither extracted text nor metadata.
C9_FailuresAnswered ==
  raised # <<>> =>
    /\ pc = "done"
    /\ responses_sent = 1
    /\ IsError(500, "PROCESSING_ERROR")
    /\ response.body.message = <<"Erro ao processar documento. Tente novamente.">>
    /\ DOMAIN response.body = {"success", "error", "message"}

\* the external call raised after the file had been read and validated
C9_Witness ==
  /\ Answered
  /\ raised = <<"generate_content">>
  /\ "file_bytes" \in DOMAIN locals
  /\ gemini_calls = 1
  /\ IsError(500, "PROCESSING_ERROR")

\* the steps of the handler, in the order of the code
Pipeline ==
  <<"method", "credential", "file_field", "filename", "read", "validate",
    "mime", "extract", "classify">>

\* the error code (or "OK", or "EMPTY" for the pre-flight answer) a request
\* gets, from the credential, the request and what the environment did
ExpectedCode ==
  IF request.method = "OPTIONS" THEN "EMPTY"
  ELSE IF ~CredentialSet THEN "CONFIG_ERROR"
  ELSE IF ~HasFileField THEN "NO_FILE"
  ELSE IF Upload.filename = <<>> THEN "NO_FILE"
  ELSE IF raised = <<"read">> THEN "PROCESSING_ERROR"
  ELSE IF ~Acceptable(Upload.filename, Upload.stream_len) THEN "INVALID_FILE"
  ELSE IF raised # <<>> THEN "PROCESSING_ERROR"
  ELSE IF StartsWithIgnoringCase(Trimmed(ModelText), NOT_CLINICAL)
  THEN "NOT_CLINICAL"
  ELSE "OK"

\* the code the response carries
ResponseCode ==
  IF ~response.is_json THEN "EMPTY"
  ELSE IF "error" \in DOMAIN response.body THEN response.body.error
  ELSE "OK"

\* C10: a request is a linear pipeline: its steps are taken in the order of
\* the code, none twice; the external model is called at most once, and only
\* after the credential, file-field, filename and validation checks passed;
\* a request that ended has exactly one response, an unfinished one none;
\* the outcome is determined by the request itself, whatever came before.
C10_LinearPipeline ==
  /\ Len(steps) <= Len(Pipeline)
  /\ \A i \in 1..Len(steps) : steps[i] = Pipeline[i]
  /\ gemini_calls <= 1
  /\ gemini_calls = 1 =>
       /\ SubSeq(steps, 1, 7) = SubSeq(Pipeline, 1, 7)
       /\ CredentialSet
       /\ HasFileField
       /\ Upload.filename # <<>>
       /\ Acceptable(Upload.filename, Upload.stream_len)
  /\ responses_sent = (IF pc = "done" THEN 1 ELSE 0)
  /\ pc = "done" => ResponseCode = ExpectedCode

\* a second request is answered after the external call raised once
C10_Witness ==
  /\ pc = "done"
  /\ served = 1
  /\ gemini_calls = 1
  /\ raised = <<"generate_content">>
  /\ responses_sent = 1

====
